---- MODULE Spec2Model ----
(***************************************************************************)
(* ProcessExplorerLite: the event loop of main.c as a state machine.       *)
(*                                                                         *)
(* The main thread is followed statement by statement through main()       *)
(* (pc names the statement about to run).  The SIGWINCH handler            *)
(* handle_sigwinch runs asynchronously: it may land before any statement   *)
(* of the main thread, and while the thread is blocked in select().        *)
(***************************************************************************)
EXTENDS Integers, Naturals, Sequences, FiniteSets, TLC

(* ------------------------------------------------------------------ *)
(* Bounds of the exploration                                           *)
(* ------------------------------------------------------------------ *)
MaxWaits == 3      \* select() calls explored in one run
MaxIters == 4      \* loop iterations compared between the versions of main.c
MaxNotifs == 2     \* window-size changes explored in one run
MaxNav == 4        \* navigation keys, toggles and resizes applied to the viewport in one run
MaxTasksSmall == 5 \* collect_task_data is called with every max_tasks from 0 to this

(* ------------------------------------------------------------------ *)
(* Values of the environment                                           *)
(* ------------------------------------------------------------------ *)
EINTR == 4
FatalErrnos == {9, 22}                \* errno of a failed select() other than EINTR: EBADF, EINVAL
STDIN_FILENO == 0
TimeoutSec == 1                       \* timeout.tv_sec = 1
TermSizes == {<<24, 80>>, <<9, 15>>}  \* <<rows, cols>> the terminal can have
Keys == {"q", "Q", "d", "D", "r", "R", "h", "H", "x"}   \* "x": any unrecognised key
NoKey == "none"
NoFrame == [rows |-> 0, cols |-> 0, debug |-> 0,
            header |-> {}, content |-> {}, panel |-> {}, footer |-> {}]

VARIABLES
    pc,                 \* statement of main() about to run
    running,            \* int running
    debug_mode,         \* int debug_mode
    resize_pending,     \* volatile sig_atomic_t resize_pending
    resize_count,       \* static int resize_count
    select_timeout_count,
    select_input_count,
    select_interrupt_count,
    last_errno,
    errno,              \* the C library's errno
    select_result,      \* main's local: value returned by wait_for_input
    ch,                 \* main's local: key returned by getch
    timeout,            \* main's local: timeout.tv_sec
    readfds,            \* main's local: the watched descriptor set
    handler_installed,  \* sigaction(SIGWINCH, ...) has been done
    curses_active,      \* the terminal is in curses (raw, full-screen) mode
    term,               \* <<rows, cols>> of the real terminal
    LINES_COLS,         \* <<rows, cols>> as cached by the rendering backend
    frame,              \* the frame last drawn by the loop
    stderr_log,         \* writes to the error stream, each with the terminal mode at the time
    stdout_log,         \* writes to the output stream, each with the terminal mode at the time
    exit_status,        \* -1 while the process lives
    \* history variables (observations of the run, never read by the program)
    notifs,             \* SIGWINCH deliveries to handle_sigwinch so far
    synced_notifs,      \* value of notifs when the backend last re-queried the size
    notifs_since_test,  \* deliveries since the loop last tested resize_pending
    notifs_since_clear, \* deliveries since "resize_pending = 0" last ran
    flag_clears,        \* executions of "resize_pending = 0"
    resyncs,            \* executions of refresh() inside handle_resize
    waits,              \* select() calls that returned
    wait_outcome,       \* how the select() of this iteration ended
    getch_calls,        \* getch() calls since the last select() was entered
    restores_since_frame, \* endwin() calls since the last frame was displayed
    iter_steps,         \* what this iteration of the loop has done so far, in order
    resize_count_at_wait, \* resize_count when the last select() returned
    toggles,            \* debug keys ('d' or 'D') dispatched so far
    \* Viewport Model (selection and scrolling over the snapshot)
    snapshot_length,    \* entities in the snapshot
    selected_index,
    scroll_offset,
    view_rows,          \* terminal rows the geometry is derived from
    debug_visible,      \* the debug panel takes rows from the content
    nav_trace,          \* navigation keys, toggles and resizes applied so far, in order
    \* collect_task_data: its arguments, locals and position
    ct_pc,              \* "idle", "outer", "inner", "returned"
    max_tasks,
    tasks,              \* the caller's array: index -> entry written
    ct_i,
    ct_t,
    ct_count,
    ct_ret,             \* value returned, -1 before the return
    state_shown,        \* last result of get_state_string
    ct_calls,           \* calls of collect_task_data made so far
    prev_tasks,         \* what the call before this one wrote
    eq_main,            \* globals of main.c run one loop iteration at a time
    eq_000,             \* globals of the main.c of part_000, given the same events
    eq_001,             \* globals of the main.c of part_001, given the same events
    eq_iter             \* loop iterations given so far

vars == <<pc, running, debug_mode, resize_pending, resize_count,
          select_timeout_count, select_input_count, select_interrupt_count,
          last_errno, errno, select_result, ch, timeout, readfds, handler_installed,
          curses_active, term, LINES_COLS, frame, stderr_log, stdout_log,
          exit_status, notifs, synced_notifs, notifs_since_test,
          notifs_since_clear, flag_clears,
          resyncs, waits, wait_outcome, getch_calls, restores_since_frame,
          iter_steps, resize_count_at_wait, toggles,
          snapshot_length, selected_index, scroll_offset, view_rows,
          debug_visible, nav_trace,
          ct_pc, max_tasks, tasks, ct_i, ct_t, ct_count, ct_ret, state_shown,
          ct_calls, prev_tasks, eq_main, eq_000, eq_001, eq_iter>>

\* the program's own variables other than pc and the resize flag
progVars == <<running, debug_mode, resize_count, select_timeout_count,
              select_input_count, select_interrupt_count, last_errno, errno,
              select_result, ch, timeout, readfds>>
termVars == <<curses_active, LINES_COLS, frame, restores_since_frame>>
ioVars == <<stderr_log, stdout_log, exit_status>>
waitHist == <<waits, wait_outcome, getch_calls>>
drainHist == <<synced_notifs, flag_clears, resyncs>>
notifHist == <<notifs, notifs_since_test, notifs_since_clear>>
viewVars == <<snapshot_length, selected_index, scroll_offset, view_rows,
              debug_visible, nav_trace>>
taskVars == <<ct_pc, max_tasks, tasks, ct_i, ct_t, ct_count, ct_ret, state_shown,
              ct_calls, prev_tasks>>
equivVars == <<eq_main, eq_000, eq_001, eq_iter>>
\* everything main() and handle_sigwinch read or write, with the observations of the run
loopVars == <<pc, running, debug_mode, resize_pending, resize_count,
              select_timeout_count, select_input_count, select_interrupt_count,
              last_errno, errno, select_result, ch, timeout, readfds,
              handler_installed, curses_active, term, LINES_COLS, frame,
              stderr_log, stdout_log, exit_status, notifs, synced_notifs,
              notifs_since_test, notifs_since_clear, flag_clears, resyncs, waits,
              wait_outcome, getch_calls, restores_since_frame, iter_steps,
              resize_count_at_wait, toggles>>

(* ------------------------------------------------------------------ *)
(* Initial state: globals as initialised at main.c:34-48               *)
(* ------------------------------------------------------------------ *)
MainInit ==
    /\ pc = "sigaction"
    /\ running = 1
    /\ debug_mode = 0
    /\ resize_pending = 0
    /\ resize_count = 0
    /\ select_timeout_count = 0
    /\ select_input_count = 0
    /\ select_interrupt_count = 0
    /\ last_errno = 0
    /\ errno = 0
    /\ select_result = 0
    /\ ch = NoKey
    /\ timeout = 0
    /\ readfds = {}
    /\ handler_installed = FALSE
    /\ curses_active = FALSE
    /\ term \in TermSizes
    /\ LINES_COLS = <<0, 0>>
    /\ frame = NoFrame
    /\ stderr_log = <<>>
    /\ stdout_log = <<>>
    /\ exit_status = -1
    /\ notifs = 0
    /\ synced_notifs = 0
    /\ notifs_since_test = 0
    /\ notifs_since_clear = 0
    /\ flag_clears = 0
    /\ resyncs = 0
    /\ waits = 0
    /\ wait_outcome = "none"
    /\ getch_calls = 0
    /\ restores_since_frame = 0
    /\ iter_steps = <<>>
    /\ resize_count_at_wait = 0
    /\ toggles = 0

\* No snapshot has been fetched and no key has moved the selection.
ViewIdle ==
    /\ snapshot_length = 0
    /\ selected_index = 0
    /\ scroll_offset = 0
    /\ view_rows = 0
    /\ debug_visible = FALSE
    /\ nav_trace = <<>>

\* collect_task_data has not been called.
TaskIdle ==
    /\ ct_pc = "idle"
    /\ max_tasks = 0
    /\ tasks = <<>>
    /\ ct_i = 0
    /\ ct_t = 0
    /\ ct_count = 0
    /\ ct_ret = -1
    /\ state_shown = "none"
    /\ ct_calls = 0
    /\ prev_tasks = <<>>

\* the globals as initialised at main.c:34-48, part_000:30-41, part_001:29-43
Globals ==
    [running |-> 1, debug_mode |-> 0, resize_pending |-> 0, resize_count |-> 0,
     select_timeout_count |-> 0, select_input_count |-> 0,
     select_interrupt_count |-> 0, last_errno |-> 0, terminated |-> FALSE]

EquivIdle ==
    /\ eq_main = Globals
    /\ eq_000 = Globals
    /\ eq_001 = Globals
    /\ eq_iter = 0

Init == MainInit /\ ViewIdle /\ TaskIdle /\ EquivIdle

(* ------------------------------------------------------------------ *)
(* The functions of main.c as operators                                *)
(* ------------------------------------------------------------------ *)

\* Variant of handle_sigwinch that counts in the flag instead of setting it.
handle_sigwinch_Increment(flag) == flag + 1

\* Variant of handle_sigwinch that forgets to raise the flag.
handle_sigwinch_NoFlag(flag) == flag

\* Variant of the handler that flips the flag.
handle_sigwinch_Toggle(flag) == 1 - flag

\* handle_sigwinch: the value it leaves in resize_pending.
handle_sigwinch(flag) == 1

\* Variant of wait_for_input that reports an interrupted select() as fatal.
wait_for_input_EintrFatal(result, err) ==
    IF result < 0
    THEN IF err = EINTR
         THEN [ret |-> -1, last_errno |-> err, interrupts |-> 1, inputs |-> 0,
               timeouts |-> 0, perror |-> FALSE]
         ELSE [ret |-> -1, last_errno |-> err, interrupts |-> 0, inputs |-> 0,
               timeouts |-> 0, perror |-> TRUE]
    ELSE IF result > 0
         THEN [ret |-> 1, last_errno |-> 0, interrupts |-> 0, inputs |-> 1,
               timeouts |-> 0, perror |-> FALSE]
         ELSE [ret |-> 0, last_errno |-> 0, interrupts |-> 0, inputs |-> 0,
               timeouts |-> 1, perror |-> FALSE]

\* Variant of wait_for_input that counts a timeout as an input event.
wait_for_input_TimeoutAsInput(result, err) ==
    IF result < 0
    THEN IF err = EINTR
         THEN [ret |-> 0, last_errno |-> err, interrupts |-> 1, inputs |-> 0,
               timeouts |-> 0, perror |-> FALSE]
         ELSE [ret |-> -1, last_errno |-> err, interrupts |-> 0, inputs |-> 0,
               timeouts |-> 0, perror |-> TRUE]
    ELSE [ret |-> IF result > 0 THEN 1 ELSE 0, last_errno |-> 0, interrupts |-> 0,
          inputs |-> 1, timeouts |-> 0, perror |-> FALSE]

\* Variant of wait_for_input that counts a failed select() as an
\* interruption before it looks at errno.
wait_for_input_ErrorCounted(result, err) ==
    IF result < 0
    THEN IF err = EINTR
         THEN [ret |-> 0, last_errno |-> err, interrupts |-> 1, inputs |-> 0,
               timeouts |-> 0, perror |-> FALSE]
         ELSE [ret |-> -1, last_errno |-> err, interrupts |-> 1, inputs |-> 0,
               timeouts |-> 0, perror |-> TRUE]
    ELSE IF result > 0
         THEN [ret |-> 1, last_errno |-> 0, interrupts |-> 0, inputs |-> 1,
               timeouts |-> 0, perror |-> FALSE]
         ELSE [ret |-> 0, last_errno |-> 0, interrupts |-> 0, inputs |-> 0,
               timeouts |-> 1, perror |-> FALSE]

\* Variant of wait_for_input that records no error code for an interruption.
wait_for_input_InterruptClearsErrno(result, err) ==
    IF result < 0
    THEN IF err = EINTR
         THEN [ret |-> 0, last_errno |-> 0, interrupts |-> 1, inputs |-> 0,
               timeouts |-> 0, perror |-> FALSE]
         ELSE [ret |-> -1, last_errno |-> err, interrupts |-> 0, inputs |-> 0,
               timeouts |-> 0, perror |-> TRUE]
    ELSE IF result > 0
         THEN [ret |-> 1, last_errno |-> 0, interrupts |-> 0, inputs |-> 1,
               timeouts |-> 0, perror |-> FALSE]
         ELSE [ret |-> 0, last_errno |-> 0, interrupts |-> 0, inputs |-> 0,
               timeouts |-> 1, perror |-> FALSE]

\* wait_for_input after select() returned `result` with errno `err`:
\* the value returned, the new last_errno, the counter increments and
\* whether perror("select") was written.
wait_for_input(result, err) ==
    IF result < 0
    THEN IF err = EINTR
         THEN [ret |-> 0, last_errno |-> err, interrupts |-> 1, inputs |-> 0,
               timeouts |-> 0, perror |-> FALSE]
         ELSE [ret |-> -1, last_errno |-> err, interrupts |-> 0, inputs |-> 0,
               timeouts |-> 0, perror |-> TRUE]
    ELSE IF result > 0
         THEN [ret |-> 1, last_errno |-> 0, interrupts |-> 0, inputs |-> 1,
               timeouts |-> 0, perror |-> FALSE]
         ELSE [ret |-> 0, last_errno |-> 0, interrupts |-> 0, inputs |-> 0,
               timeouts |-> 1, perror |-> FALSE]

\* Variant of handle_input in which the refresh key also quits.
handle_input_RefreshQuits(c, run, dbg) ==
    IF c \in {"q", "Q", "r", "R"} THEN [running |-> 0, debug_mode |-> dbg]
    ELSE IF c \in {"d", "D"} THEN [running |-> run, debug_mode |-> 1 - dbg]
    ELSE [running |-> run, debug_mode |-> dbg]

\* Variant of handle_input in which the quit key is not handled.
handle_input_QuitIgnored(c, run, dbg) ==
    IF c \in {"d", "D"} THEN [running |-> run, debug_mode |-> 1 - dbg]
    ELSE [running |-> run, debug_mode |-> dbg]

\* Variant of handle_input whose debug key only switches the panel on.
handle_input_DebugOnOnly(c, run, dbg) ==
    IF c \in {"q", "Q"} THEN [running |-> 0, debug_mode |-> dbg]
    ELSE IF c \in {"d", "D"} THEN [running |-> run, debug_mode |-> 1]
    ELSE [running |-> run, debug_mode |-> dbg]

\* Variant of handle_input whose quit key also switches the panel off.
handle_input_QuitClearsDebug(c, run, dbg) ==
    IF c \in {"q", "Q"} THEN [running |-> 0, debug_mode |-> 0]
    ELSE IF c \in {"d", "D"} THEN [running |-> run, debug_mode |-> 1 - dbg]
    ELSE [running |-> run, debug_mode |-> dbg]

\* handle_input: running and debug_mode after the switch on the key.
handle_input(c, run, dbg) ==
    IF c \in {"q", "Q"} THEN [running |-> 0, debug_mode |-> dbg]
    ELSE IF c \in {"d", "D"} THEN [running |-> run, debug_mode |-> 1 - dbg]
    ELSE [running |-> run, debug_mode |-> dbg]

\* Variant of the dispatch that waits again after a timeout without redrawing.
AfterWait_RewaitOnTimeout(res) ==
    IF res < 0 THEN "cleanup_ui"
    ELSE IF res > 0 THEN "getch"
    ELSE "wait_setup"

\* Variant of the dispatch whose error path leaves without cleanup_ui.
AfterWait_SkipCleanup(res) ==
    IF res < 0 THEN "print_summary"
    ELSE IF res > 0 THEN "getch"
    ELSE "while_running"

\* Variant of the dispatch that does not break out of the loop on an error.
AfterWait_NoBreak(res) ==
    IF res > 0 THEN "getch" ELSE "while_running"

\* Variant of the dispatch that reads a key whenever the wait did not fail.
AfterWait_ReadAlways(res) ==
    IF res < 0 THEN "cleanup_ui" ELSE "getch"

\* main.c:326-332: where the loop goes on the value wait_for_input returned.
AfterWait(res) ==
    IF res < 0 THEN "cleanup_ui"
    ELSE IF res > 0 THEN "getch"
    ELSE "while_running"

\* Variant of the loop condition that leaves without cleanup_ui.
WhileRunning_SkipCleanup(run) == IF run # 0 THEN "if_resize_pending" ELSE "print_summary"

\* main.c:298: the loop condition.
WhileRunning(run) == IF run # 0 THEN "if_resize_pending" ELSE "cleanup_ui"

\* Variant of the flag test that never drains.
IfResizePending_SkipDrain(flag) == "getmaxyx"

\* Variant of the flag test with the condition inverted.
IfResizePending_Inverted(flag) == IF flag = 0 THEN "clear_resize_pending" ELSE "getmaxyx"

\* Variant of the test that drains in every iteration.
IfResizePending_AlwaysDrain(flag) == "clear_resize_pending"

\* main.c:300: the test of the resize flag.
IfResizePending(flag) == IF flag # 0 THEN "clear_resize_pending" ELSE "getmaxyx"

(* ------------------------------------------------------------------ *)
(* The asynchronous resize notification                                *)
(* ------------------------------------------------------------------ *)

\* Variant of the registration that is undone by the first delivery
\* (the behaviour of signal() on some systems).
SaFlags_OneShot == {"SA_RESTART", "SA_RESETHAND"}

\* main.c:278: sa.sa_flags of the registration.
SaFlags == {"SA_RESTART"}

\* Whether the handler is still registered after a delivery.
StaysInstalled(flags) == "SA_RESETHAND" \notin flags

\* The terminal changes size and the kernel sends SIGWINCH.  Before
\* sigaction() the default disposition ignores it.  Afterwards
\* handle_sigwinch runs to completion at this point of the main thread; a
\* select() in progress is aborted with EINTR (select is never restarted,
\* SA_RESTART notwithstanding).
Sigwinch ==
    /\ pc # "exited"
    /\ notifs < MaxNotifs
    /\ \E sz \in TermSizes : term' = sz
    /\ IF handler_installed
       THEN /\ resize_pending' = handle_sigwinch(resize_pending)
            /\ notifs' = notifs + 1
            /\ notifs_since_test' = notifs_since_test + 1
            /\ notifs_since_clear' = notifs_since_clear + 1
            /\ handler_installed' = StaysInstalled(SaFlags)
            /\ pc' = IF pc = "in_select" THEN "select_eintr" ELSE pc
       ELSE UNCHANGED <<resize_pending, notifHist, handler_installed, pc>>
    /\ UNCHANGED <<viewVars, taskVars, equivVars, iter_steps, resize_count_at_wait, toggles,
                   progVars, termVars, ioVars, waitHist, drainHist>>

(* ------------------------------------------------------------------ *)
(* main(): start-up                                                    *)
(* ------------------------------------------------------------------ *)

\* main.c:276-279
Sigaction ==
    /\ pc = "sigaction"
    /\ handler_installed' = TRUE
    /\ pc' = "init_ui"
    /\ UNCHANGED <<viewVars, taskVars, equivVars, iter_steps, resize_count_at_wait, toggles,
                   progVars, resize_pending, termVars, term, ioVars, notifHist,
                   waitHist, drainHist>>

\* main.c:282, init_ui: initscr() enters curses mode and reads the size.
init_ui ==
    /\ pc = "init_ui"
    /\ curses_active' = TRUE
    /\ LINES_COLS' = term
    /\ synced_notifs' = notifs
    /\ pc' = "while_running"
    /\ UNCHANGED <<viewVars, taskVars, equivVars, iter_steps, resize_count_at_wait, toggles,
                   progVars, resize_pending, handler_installed, term, frame,
                   restores_since_frame, ioVars, notifHist,
                   waitHist, flag_clears, resyncs>>

(* ------------------------------------------------------------------ *)
(* main(): one iteration of the loop                                   *)
(* ------------------------------------------------------------------ *)

\* main.c:298
while_running ==
    /\ pc = "while_running"
    /\ pc' = WhileRunning(running)
    /\ iter_steps' = <<>>
    /\ UNCHANGED <<viewVars, taskVars, equivVars, resize_count_at_wait, toggles,
                   progVars, resize_pending, handler_installed, termVars, term,
                   ioVars, notifHist, waitHist, drainHist>>

\* main.c:300
if_resize_pending ==
    /\ pc = "if_resize_pending"
    /\ pc' = IfResizePending(resize_pending)
    /\ notifs_since_test' = 0
    /\ iter_steps' = Append(iter_steps, IF resize_pending # 0 THEN "flag_set" ELSE "flag_clear")
    /\ UNCHANGED <<viewVars, taskVars, equivVars, resize_count_at_wait, toggles,
                   progVars, resize_pending, handler_installed, termVars, term,
                   ioVars, notifs, notifs_since_clear, waitHist, drainHist>>

\* main.c:301
clear_resize_pending ==
    /\ pc = "clear_resize_pending"
    /\ resize_pending' = 0
    /\ flag_clears' = flag_clears + 1
    /\ notifs_since_clear' = 0
    /\ pc' = "handle_resize"
    /\ UNCHANGED <<viewVars, taskVars, equivVars, iter_steps, resize_count_at_wait, toggles,
                   progVars, handler_installed, termVars, term, ioVars, notifs,
                   notifs_since_test, waitHist, synced_notifs, resyncs>>

\* Variant of handle_resize that counts downwards.
ResizeCounted_Down(n) == n - 1

\* Variant of handle_resize that counts a resize twice.
ResizeCounted_Twice(n) == n + 2

\* handle_resize, main.c:103: the value it leaves in resize_count.
ResizeCounted(n) == n + 1

\* main.c:302 -> handle_resize, main.c:103
handle_resize ==
    /\ pc = "handle_resize"
    /\ resize_count' = ResizeCounted(resize_count)
    /\ pc' = "handle_resize_endwin"
    /\ UNCHANGED <<viewVars, taskVars, equivVars, iter_steps, resize_count_at_wait, toggles,
                   running, debug_mode, select_timeout_count, select_input_count,
                   select_interrupt_count, last_errno, errno, select_result, ch, timeout,
                   readfds, resize_pending, handler_installed, termVars, term,
                   ioVars, notifHist, waitHist, drainHist>>

\* handle_resize, main.c:104
handle_resize_endwin ==
    /\ pc = "handle_resize_endwin"
    /\ curses_active' = FALSE
    /\ restores_since_frame' = restores_since_frame + 1
    /\ pc' = "handle_resize_refresh"
    /\ UNCHANGED <<viewVars, taskVars, equivVars, iter_steps, resize_count_at_wait, toggles,
                   progVars, resize_pending, handler_installed, LINES_COLS, frame,
                   term, ioVars, notifHist, waitHist, drainHist>>

\* handle_resize, main.c:105: refresh() after endwin() re-enters curses mode
\* and asks the terminal for its size.
handle_resize_refresh ==
    /\ pc = "handle_resize_refresh"
    /\ curses_active' = TRUE
    /\ LINES_COLS' = term
    /\ synced_notifs' = notifs
    /\ resyncs' = resyncs + 1
    /\ pc' = "getmaxyx"
    /\ iter_steps' = Append(iter_steps, "resync")
    /\ UNCHANGED <<viewVars, taskVars, equivVars, resize_count_at_wait, toggles,
                   progVars, resize_pending, handler_installed, frame,
                   restores_since_frame, term, ioVars, notifHist,
                   waitHist, flag_clears>>

\* main.c:306: max_y and max_x are read and never used.
getmaxyx ==
    /\ pc = "getmaxyx"
    /\ pc' = "render"
    /\ iter_steps' = Append(iter_steps, "query")
    /\ UNCHANGED <<viewVars, taskVars, equivVars, resize_count_at_wait, toggles,
                   progVars, resize_pending, handler_installed, termVars, term,
                   ioVars, notifHist, waitHist, drainHist>>

(* ------------------------------------------------------------------ *)
(* The four sections of a frame.  Each operator gives the draw calls   *)
(* (mvprintw, mvhline) of its function as the positions <<row, col>>   *)
(* they are issued at; max_y and max_x are what getmaxyx reports.      *)
(* ------------------------------------------------------------------ *)

At(r, c) == [row |-> r, col |-> c]

\* main.c:111-124
draw_header(max_y, max_x) ==
    {At(0, 0), At(0, max_x - 20), At(1, 0)}

\* main.c:129-137
draw_footer(max_y, max_x) ==
    {At(max_y - 1, 0)}

\* main.c:142-154
draw_content(max_y, max_x) ==
    {At(3, 2), At(5, 2), At(6, 2), At(8, 2), At(9, 2)}

\* Variant that draws the panel whatever debug_mode is.
draw_debug_panel_Always(dbg, max_y, max_x) ==
    LET panel_height == 8
        panel_top == max_y - panel_height - 1
    IN  {At(panel_top - 1, 0), At(panel_top - 1, 2), At(panel_top, 2),
         At(panel_top + 1, 4), At(panel_top + 2, 4), At(panel_top + 3, 2),
         At(panel_top + 4, 4), At(panel_top + 5, 2), At(panel_top + 6, 4)}

\* main.c:160-195
draw_debug_panel(dbg, max_y, max_x) ==
    IF dbg = 0
    THEN {}
    ELSE LET panel_height == 8
             panel_top == max_y - panel_height - 1
         IN  {At(panel_top - 1, 0), At(panel_top - 1, 2), At(panel_top, 2),
              At(panel_top + 1, 4), At(panel_top + 2, 4), At(panel_top + 3, 2),
              At(panel_top + 4, 4), At(panel_top + 5, 2), At(panel_top + 6, 4)}

\* The draw calls the backend carries out: a call at a position outside
\* the window fails (mvprintw and mvhline return ERR, which main.c never
\* looks at) and writes nothing.
OnScreen(calls, max_y, max_x) ==
    {c \in calls : c.row >= 0 /\ c.row < max_y /\ c.col >= 0 /\ c.col < max_x}

RowsOf(calls) == {c.row : c \in calls}

\* main.c:310-315: clear, the four sections, refresh.
render ==
    /\ pc = "render"
    /\ LET max_y == LINES_COLS[1]
           max_x == LINES_COLS[2]
       IN  frame' = [rows |-> max_y, cols |-> max_x, debug |-> debug_mode,
                     header  |-> draw_header(max_y, max_x),
                     content |-> draw_content(max_y, max_x),
                     panel   |-> draw_debug_panel(debug_mode, max_y, max_x),
                     footer  |-> draw_footer(max_y, max_x)]
    /\ restores_since_frame' = 0
    /\ pc' = "wait_setup"
    /\ iter_steps' = Append(iter_steps, "render")
    /\ UNCHANGED <<viewVars, taskVars, equivVars, resize_count_at_wait, toggles,
                   progVars, resize_pending, handler_installed, curses_active,
                   LINES_COLS, term, ioVars, notifHist, waitHist,
                   drainHist>>

\* Variant of the wait set-up done once, before the first wait only.
wait_setup_OnlyOnce ==
    /\ pc = "wait_setup"
    /\ timeout' = IF waits = 0 THEN TimeoutSec ELSE timeout
    /\ readfds' = IF waits = 0 THEN {STDIN_FILENO} ELSE readfds
    /\ pc' = "wait_for_input"
    /\ UNCHANGED <<viewVars, taskVars, equivVars, iter_steps, resize_count_at_wait, toggles,
                   running, debug_mode, resize_count, select_timeout_count,
                   select_input_count, select_interrupt_count, last_errno,
                   errno, select_result, ch, resize_pending, handler_installed, termVars,
                   term, ioVars, notifHist, waitHist, drainHist>>

\* main.c:318-321
wait_setup ==
    /\ pc = "wait_setup"
    /\ timeout' = TimeoutSec
    /\ readfds' = {STDIN_FILENO}
    /\ pc' = "wait_for_input"
    /\ UNCHANGED <<viewVars, taskVars, equivVars, iter_steps, resize_count_at_wait, toggles,
                   running, debug_mode, resize_count, select_timeout_count,
                   select_input_count, select_interrupt_count, last_errno,
                   errno, select_result, ch, resize_pending, handler_installed, termVars,
                   term, ioVars, notifHist, waitHist, drainHist>>

\* main.c:323 -> main.c:234: the thread enters select() and blocks.
select_enter ==
    /\ pc = "wait_for_input"
    /\ waits < MaxWaits
    /\ pc' = "in_select"
    /\ wait_outcome' = "none"
    /\ getch_calls' = 0
    /\ UNCHANGED <<viewVars, taskVars, equivVars, iter_steps, resize_count_at_wait, toggles,
                   progVars, resize_pending, handler_installed, termVars, term,
                   ioVars, notifHist, waits, drainHist>>

\* select() has returned `result` with errno `err`: the rest of
\* wait_for_input (main.c:236-259) and the assignment at main.c:323.
WaitReturns(result, err, outcome) ==
    LET w == wait_for_input(result, err) IN
    /\ errno' = IF result < 0 THEN err ELSE errno
    /\ last_errno' = w.last_errno
    /\ select_interrupt_count' = select_interrupt_count + w.interrupts
    /\ select_input_count' = select_input_count + w.inputs
    /\ select_timeout_count' = select_timeout_count + w.timeouts
    /\ stderr_log' = IF w.perror
                     THEN Append(stderr_log, [msg |-> "select", curses |-> curses_active])
                     ELSE stderr_log
    /\ select_result' = w.ret
    /\ waits' = waits + 1
    /\ wait_outcome' = outcome
    /\ pc' = "after_wait"
    /\ iter_steps' = Append(iter_steps, "wait")
    /\ resize_count_at_wait' = resize_count
    /\ UNCHANGED <<viewVars, taskVars, equivVars, toggles,
                   running, debug_mode, resize_count, ch, resize_pending,
                   handler_installed, termVars, term, stdout_log, exit_status,
                   notifHist, getch_calls, drainHist>>

\* A key is available: select() returns 1 with stdin in the set; Linux
\* leaves the time not slept in the timeout.
select_ready ==
    /\ pc = "in_select"
    /\ \E left \in 0..TimeoutSec : timeout' = left
    /\ readfds' = {STDIN_FILENO}
    /\ WaitReturns(1, 0, "ready")

\* The second passes without a key: select() returns 0 and empties the set.
select_timeout ==
    /\ pc = "in_select"
    /\ timeout' = 0
    /\ readfds' = {}
    /\ WaitReturns(0, 0, "timeout")

\* handle_sigwinch ran while the thread was blocked: select() returns -1, EINTR.
select_interrupted ==
    /\ pc = "select_eintr"
    /\ \E left \in 0..TimeoutSec : timeout' = left
    /\ readfds' = readfds
    /\ WaitReturns(-1, EINTR, "interrupted")

\* select() fails for another reason.
select_error ==
    /\ pc = "in_select"
    /\ \E left \in 0..TimeoutSec : timeout' = left
    /\ readfds' = readfds
    /\ \E e \in FatalErrnos : WaitReturns(-1, e, "error")

\* main.c:326-332
after_wait ==
    /\ pc = "after_wait"
    /\ pc' = AfterWait(select_result)
    /\ UNCHANGED <<viewVars, taskVars, equivVars, iter_steps, resize_count_at_wait, toggles,
                   progVars, resize_pending, handler_installed, termVars, term,
                   ioVars, notifHist, waitHist, drainHist>>

\* main.c:329
getch ==
    /\ pc = "getch"
    /\ \E k \in Keys : ch' = k
    /\ getch_calls' = getch_calls + 1
    /\ pc' = "handle_input"
    /\ UNCHANGED <<viewVars, taskVars, equivVars, iter_steps, resize_count_at_wait, toggles,
                   running, debug_mode, resize_count, select_timeout_count,
                   select_input_count, select_interrupt_count, last_errno,
                   errno, select_result, timeout, readfds, resize_pending,
                   handler_installed, termVars, term, ioVars, notifHist, waits,
                   wait_outcome, drainHist>>

\* main.c:330
HandleInput ==
    /\ pc = "handle_input"
    /\ LET h == handle_input(ch, running, debug_mode) IN
         /\ running' = h.running
         /\ debug_mode' = h.debug_mode
    /\ pc' = "while_running"
    /\ iter_steps' = Append(iter_steps, "dispatch")
    /\ toggles' = IF ch \in {"d", "D"} THEN toggles + 1 ELSE toggles
    /\ UNCHANGED <<viewVars, taskVars, equivVars, resize_count_at_wait,
                   resize_count, select_timeout_count, select_input_count,
                   select_interrupt_count, last_errno, errno, select_result, ch, timeout,
                   readfds, resize_pending, handler_installed, termVars, term,
                   ioVars, notifHist, waitHist, drainHist>>

(* ------------------------------------------------------------------ *)
(* main(): after the loop                                              *)
(* ------------------------------------------------------------------ *)

\* main.c:336, cleanup_ui: endwin()
cleanup_ui ==
    /\ pc = "cleanup_ui"
    /\ curses_active' = FALSE
    /\ restores_since_frame' = restores_since_frame + 1
    /\ pc' = "print_summary"
    /\ UNCHANGED <<viewVars, taskVars, equivVars, iter_steps, resize_count_at_wait, toggles,
                   progVars, resize_pending, handler_installed, LINES_COLS, frame,
                   term, ioVars, notifHist, waitHist, drainHist>>

\* main.c:339-344
print_summary ==
    /\ pc = "print_summary"
    /\ stdout_log' = Append(stdout_log,
            [msg |-> "summary", curses |-> curses_active,
             resizes |-> resize_count, timeouts |-> select_timeout_count,
             inputs |-> select_input_count, interrupts |-> select_interrupt_count])
    /\ pc' = "return"
    /\ UNCHANGED <<viewVars, taskVars, equivVars, iter_steps, resize_count_at_wait, toggles,
                   progVars, resize_pending, handler_installed, termVars, term,
                   stderr_log, exit_status, notifHist, waitHist,
                   drainHist>>

\* Variant of the return that reports a failed wait to the caller.
ExitStatus_FailureOnError(res) == IF res < 0 THEN 1 ELSE 0

\* main.c:346: return 0, whatever select_result was
ExitStatus(res) == 0

\* main.c:346
return_0 ==
    /\ pc = "return"
    /\ exit_status' = ExitStatus(select_result)
    /\ pc' = "exited"
    /\ UNCHANGED <<viewVars, taskVars, equivVars, iter_steps, resize_count_at_wait, toggles,
                   progVars, resize_pending, handler_installed, termVars, term,
                   stderr_log, stdout_log, notifHist, waitHist,
                   drainHist>>

Next ==
    \/ Sigwinch
    \/ Sigaction
    \/ init_ui
    \/ while_running
    \/ if_resize_pending
    \/ clear_resize_pending
    \/ handle_resize
    \/ handle_resize_endwin
    \/ handle_resize_refresh
    \/ getmaxyx
    \/ render
    \/ wait_setup
    \/ select_enter
    \/ select_ready
    \/ select_timeout
    \/ select_interrupted
    \/ select_error
    \/ after_wait
    \/ getch
    \/ HandleInput
    \/ cleanup_ui
    \/ print_summary
    \/ return_0

Spec == Init /\ [][Next]_vars

\* The steps of the main thread.  None of them waits for anything but
\* select(), and select() returns within its timeout.
MainThread ==
    \/ Sigaction \/ init_ui \/ while_running \/ if_resize_pending
    \/ clear_resize_pending \/ handle_resize \/ handle_resize_endwin
    \/ handle_resize_refresh \/ getmaxyx \/ render \/ wait_setup
    \/ select_enter \/ select_ready \/ select_timeout \/ select_interrupted
    \/ select_error \/ after_wait \/ getch \/ HandleInput \/ cleanup_ui
    \/ print_summary \/ return_0

\* The main thread keeps being scheduled.
FairSpec == Spec /\ WF_vars(MainThread)

(* ------------------------------------------------------------------ *)
(* Positions of the main thread                                        *)
(* ------------------------------------------------------------------ *)

\* main.c:300-303 after the test: the flag is cleared, the re-sync is to come
DrainInProgress == {"handle_resize", "handle_resize_endwin", "handle_resize_refresh"}

\* main.c:298-333
InLoop == {"while_running", "if_resize_pending", "clear_resize_pending",
           "getmaxyx", "render", "wait_setup", "wait_for_input", "in_select",
           "select_eintr", "after_wait", "getch", "handle_input"}
          \cup DrainInProgress

\* main.c:335-346
AfterLoop == {"cleanup_ui", "print_summary", "return", "exited"}

\* the four counters the wait and the drain maintain
Counters == <<resize_count, select_timeout_count, select_input_count,
              select_interrupt_count>>

(* ------------------------------------------------------------------ *)
(* Properties                                                          *)
(* ------------------------------------------------------------------ *)

\* C1: every write to the error or output stream happens with the terminal
\* already restored (no diagnostic is written while curses mode is active).
C1_DiagnosticOnlyAfterRestore ==
    /\ \A i \in 1..Len(stderr_log) : ~stderr_log[i].curses
    /\ \A i \in 1..Len(stdout_log) : ~stdout_log[i].curses

\* C2: once the loop is left and cleanup_ui has run, the terminal is out of
\* curses mode, exactly one endwin() has happened since the last frame was
\* displayed, and the process exits only from there.
C2_RestoredOnceOnEveryExit ==
    /\ pc \in {"print_summary", "return", "exited"} =>
         (~curses_active /\ restores_since_frame = 1 /\ frame # NoFrame)
    /\ exit_status # -1 => pc = "exited"

\* C2 witness: the process has exited after a fatal wait error.
C2_ExitedAfterFatalWait ==
    pc = "exited" /\ wait_outcome = "error" /\ exit_status = 0

\* C3: no resize is lost.  While a notification is newer than the backend's
\* last size query, the flag is still set, or the drain that cleared it has
\* its re-sync still to come, or the loop has terminated; and the re-sync of
\* a drain reads the size of that moment, covering every delivery so far.
C3_NoResizeLost ==
    /\ [](notifs > synced_notifs =>
            (resize_pending = 1 \/ pc \in DrainInProgress \/ pc \in AfterLoop))
    /\ [][(pc = "handle_resize_refresh" /\ pc' = "getmaxyx") =>
            (synced_notifs' = notifs /\ LINES_COLS' = term /\ curses_active')]_vars

\* C3 witness: a notification landed after the flag was cleared and before
\* the re-sync of that drain.
C3_NotifiedBetweenClearAndResync ==
    /\ pc = "handle_resize_refresh"
    /\ resize_pending = 1
    /\ notifs_since_clear = 1
    /\ notifs > synced_notifs

\* C4 as stated: whenever at least one notification was delivered since the
\* previous test of the flag, the test finds the flag set (and so drains).
C4_EveryNotificationDrainedAtNextTest ==
    (pc = "if_resize_pending" /\ notifs_since_test >= 1) => resize_pending = 1

\* C4 amended: the flag is set exactly when a notification was delivered
\* since the flag was last cleared (however many were), and every clearing
\* goes with exactly one count in resize_count and one re-sync.
C4_CoalescedSinceClear ==
    /\ (notifs_since_clear >= 1) <=> (resize_pending = 1)
    /\ resize_pending \in {0, 1}
    /\ IF pc = "handle_resize"
       THEN flag_clears = resize_count + 1 /\ flag_clears = resyncs + 1
       ELSE IF pc \in {"handle_resize_endwin", "handle_resize_refresh"}
       THEN flag_clears = resize_count /\ flag_clears = resyncs + 1
       ELSE flag_clears = resize_count /\ flag_clears = resyncs

\* C4 witness: two notifications before the first test of the flag were
\* drained as one resize.
C4_TwoNotificationsOneDrain ==
    /\ pc = "getmaxyx"
    /\ waits = 0
    /\ notifs = 2
    /\ notifs_since_test = 0
    /\ resize_pending = 0
    /\ resize_count = 1
    /\ resyncs = 1

\* C5: select() never runs to its timeout with resize_pending set since
\* before the thread blocked.
C5_NoTimeoutWhilePending ==
    [][(pc = "in_select" /\ wait_outcome' = "timeout") => resize_pending = 0]_vars

\* C6: an interrupted wait adds exactly 1 to the interrupt count, changes no
\* other counter, nor running, nor debug_mode; no key is read for the rest of
\* the iteration, the loop stays alive and goes on to the loop head.
C6_InterruptedWaitContinues ==
    /\ [][(pc = "select_eintr" /\ pc' = "after_wait") =>
            /\ select_interrupt_count' = select_interrupt_count + 1
            /\ last_errno' = EINTR
            /\ UNCHANGED <<running, debug_mode, resize_count,
                           select_timeout_count, select_input_count>>]_vars
    /\ [][(pc = "after_wait" /\ wait_outcome = "interrupted" /\ pc' # pc) =>
            (pc' = "while_running" /\ running' = 1)]_vars
    /\ [](wait_outcome = "interrupted" =>
            /\ pc \in InLoop \ {"getch", "handle_input"}
            /\ getch_calls = 0
            /\ running = 1)

\* C6 witness: after an interrupted wait the loop is at the next iteration's
\* test of the resize flag.
C6_AtDrainAfterInterrupt ==
    /\ wait_outcome = "interrupted"
    /\ pc = "if_resize_pending"
    /\ select_interrupt_count = 1
    /\ resize_pending = 1

\* C7: a wait failing with an error other than EINTR stores that error in
\* last_errno, changes no counter, and from then on the thread is only at the
\* dispatch or after the loop: no drain, render, wait or key read follows.
C7_FatalWaitTerminates ==
    /\ [][(pc = "in_select" /\ wait_outcome' = "error") =>
            /\ last_errno' = errno'
            /\ errno' \in FatalErrnos
            /\ UNCHANGED Counters]_vars
    /\ [](wait_outcome = "error" =>
            /\ pc \in {"after_wait"} \cup AfterLoop
            /\ last_errno = errno
            /\ getch_calls = 0)
    /\ [][wait_outcome = "error" =>
            UNCHANGED <<Counters, last_errno, frame, flag_clears, resyncs, waits,
                        getch_calls>>]_vars

\* C7 witness: the second wait failed with EBADF and the loop was left.
C7_LoopLeftOnError ==
    /\ wait_outcome = "error"
    /\ pc = "cleanup_ui"
    /\ last_errno = 9
    /\ waits = 2

\* C8: the caller can tell the outcomes apart by the returned value; the
\* value 0 (documented as timeout) is returned only for a timeout.
C8_ZeroOnlyOnTimeout ==
    pc = "after_wait" =>
        /\ (select_result = 0) <=> (wait_outcome = "timeout")
        /\ (select_result = 1) <=> (wait_outcome = "ready")
        /\ (select_result = -1) <=> (wait_outcome = "error")

\* C9: a timeout adds exactly 1 to the timeout count and leaves the other
\* counters, running and debug_mode alone; no key is read in that iteration
\* and the loop keeps running; as long as every wait was a timeout the
\* timeout count equals the number of waits.
C9_TimeoutTick ==
    /\ [][(pc = "in_select" /\ wait_outcome' = "timeout") =>
            /\ select_timeout_count' = select_timeout_count + 1
            /\ UNCHANGED <<select_input_count, select_interrupt_count,
                           resize_count, running, debug_mode>>]_vars
    /\ [](wait_outcome = "timeout" =>
            /\ pc \in InLoop \ {"getch", "handle_input"}
            /\ getch_calls = 0
            /\ running = 1
            /\ debug_mode = frame.debug)
    /\ []((select_input_count = 0 /\ select_interrupt_count = 0
            /\ wait_outcome # "error") =>
            /\ select_timeout_count = waits
            /\ running = 1
            /\ pc \notin AfterLoop)

\* C9 witness: three timeouts in a row from the start.
C9_ThreeTimeouts ==
    /\ select_timeout_count = 3
    /\ waits = 3
    /\ pc = "while_running"
    /\ running = 1

\* C10: a Ready wait adds exactly 1 to the input count and is followed by
\* exactly one getch and one dispatch in that iteration; getch is reached
\* only after a Ready wait.
C10_KeyReadOnlyWhenReady ==
    /\ [][(pc = "in_select" /\ wait_outcome' = "ready") =>
            /\ select_input_count' = select_input_count + 1
            /\ UNCHANGED <<select_timeout_count, select_interrupt_count,
                           resize_count>>]_vars
    /\ [](/\ getch_calls <= 1
          /\ pc \in {"getch", "handle_input"} => wait_outcome = "ready"
          /\ getch_calls = 1 => wait_outcome = "ready"
          /\ wait_outcome = "ready" =>
                (getch_calls = 1 <=> pc \notin {"after_wait", "getch"}))
    /\ [][(pc = "handle_input" /\ pc' # pc) =>
            (pc' = "while_running" /\ getch_calls = 1)]_vars

\* C10 witness: one key was read and dispatched after a Ready wait.
C10_OneKeyDispatched ==
    /\ wait_outcome = "ready"
    /\ getch_calls = 1
    /\ pc = "while_running"
    /\ select_input_count = 1

\* main.c:298-333: the steps of an iteration that found the flag set
IterationWithDrain == <<"flag_set", "resync", "query", "render", "wait", "dispatch">>

\* main.c:298-333: the steps of an iteration that found the flag clear
IterationWithoutDrain == <<"flag_clear", "query", "render", "wait", "dispatch">>

\* C11: dispatching 'q' or 'Q' clears running and returns to the loop test,
\* which leaves for cleanup_ui; from then on no drain, render, wait or key
\* read happens, and the process exits.
C11_QuitTerminates ==
    /\ [][(pc = "handle_input" /\ ch \in {"q", "Q"} /\ pc' # pc) =>
            (running' = 0 /\ pc' = "while_running")]_vars
    /\ [][(running = 0 /\ pc = "while_running" /\ pc' # pc) =>
            (pc' = "cleanup_ui" /\ curses_active)]_vars
    /\ [](running = 0 =>
            /\ pc \in {"while_running"} \cup AfterLoop
            /\ ch \in {"q", "Q"})
    /\ [][running = 0 =>
            UNCHANGED <<Counters, last_errno, frame, flag_clears, resyncs, waits,
                        getch_calls>>]_vars
    /\ (running = 0 ~> pc = "exited")

\* C11 witness: the process has exited after a quit key.
C11_ExitedAfterQuit ==
    pc = "exited" /\ running = 0 /\ ch = "Q" /\ wait_outcome = "ready"

\* C12: the loop is left only from the loop test after a dispatched quit key
\* or from the dispatch after a fatal wait error; running changes only when a
\* quit key is dispatched; after the loop the thread never re-enters it.
C12_OnlyQuitOrErrorLeaves ==
    /\ [][(pc \in InLoop /\ pc' \in AfterLoop) =>
            \/ (pc = "after_wait" /\ wait_outcome = "error")
            \/ (pc = "while_running" /\ running = 0 /\ ch \in {"q", "Q"}
                /\ wait_outcome = "ready")]_vars
    /\ [][running' # running => (pc = "handle_input" /\ ch \in {"q", "Q"})]_vars
    /\ [][(pc \in AfterLoop) => (pc' \in AfterLoop)]_vars
    /\ [][pc = "exited" => (pc' = "exited")]_vars

\* C12 witness: the loop is still running after a timeout, an interruption,
\* a resize drain and a debug toggle.
C12_StillRunningAfterEvents ==
    /\ pc = "getmaxyx"
    /\ running = 1
    /\ select_timeout_count >= 1
    /\ select_interrupt_count >= 1
    /\ resize_count >= 1
    /\ toggles >= 1

\* C13: what an iteration has done so far is always an initial part of
\* test-resync-query-render-wait-dispatch (flag found set) or of
\* test-query-render-wait-dispatch (flag found clear); the wait is entered
\* right after the render and a key is read right after the wait.
C13_FixedOrder ==
    /\ \/ (Len(iter_steps) <= Len(IterationWithDrain)
           /\ iter_steps = SubSeq(IterationWithDrain, 1, Len(iter_steps)))
       \/ (Len(iter_steps) <= Len(IterationWithoutDrain)
           /\ iter_steps = SubSeq(IterationWithoutDrain, 1, Len(iter_steps)))
    /\ pc \in {"wait_setup", "wait_for_input", "in_select", "select_eintr"} =>
         (iter_steps # <<>> /\ iter_steps[Len(iter_steps)] = "render"
          /\ frame.rows = LINES_COLS[1] /\ frame.cols = LINES_COLS[2]
          /\ frame.debug = debug_mode)
    /\ pc \in {"after_wait", "getch", "handle_input"} =>
         (iter_steps # <<>> /\ iter_steps[Len(iter_steps)] = "wait")
    /\ pc \in {"getmaxyx"} \cup DrainInProgress =>
         (iter_steps # <<>> /\ iter_steps[Len(iter_steps)] \in {"flag_set", "flag_clear", "resync"})
    /\ pc = "render" => (iter_steps # <<>> /\ iter_steps[Len(iter_steps)] = "query")

\* C13 witness: an iteration that drained a resize has run all its steps.
C13_FullIterationWithDrain ==
    iter_steps = IterationWithDrain /\ pc = "while_running"

\* C14: a wait aborted by a notification adds 1 to the interrupt count and
\* leaves the flag set; the next iteration drains it: by the time that
\* iteration queries the size and renders, resize_count is 1 more than at
\* the wait and the backend has been re-synchronised.
C14_InterruptThenDrain ==
    /\ [][(pc = "select_eintr" /\ pc' = "after_wait") =>
            /\ select_interrupt_count' = select_interrupt_count + 1
            /\ (resize_pending' = 1)]_vars
    /\ []((wait_outcome = "interrupted"
            /\ pc \in {"after_wait", "while_running", "if_resize_pending"}) =>
            (resize_pending = 1 /\ resize_count = resize_count_at_wait))
    /\ []((wait_outcome = "interrupted"
            /\ pc \in {"getmaxyx", "render", "wait_setup", "wait_for_input"}) =>
            /\ resize_count = resize_count_at_wait + 1
            /\ Len(iter_steps) >= 2
            /\ iter_steps[1] = "flag_set"
            /\ iter_steps[2] = "resync"
            /\ curses_active
            /\ (notifs = synced_notifs => LINES_COLS = term))

\* C14 witness: the iteration after an interrupted wait is about to render,
\* its drain done.
C14_DrainedBeforeRender ==
    /\ wait_outcome = "interrupted"
    /\ pc = "render"
    /\ select_interrupt_count = 1
    /\ resize_count = 1
    /\ LINES_COLS = term

\* C15: a delivery of the notification sets the flag to 1 and changes no
\* counter, nor last_errno, running, debug_mode, the locals of main, the
\* backend's state, the frame or the output.
C15_HandlerTouchesOnlyFlag ==
    [][notifs' # notifs =>
        /\ resize_pending' = 1
        /\ UNCHANGED <<Counters, last_errno, errno, running, debug_mode,
                       select_result, ch, timeout, readfds, curses_active,
                       LINES_COLS, frame, stderr_log, stdout_log, exit_status>>]_vars

\* C15 witness: a notification landed between the wait's return and the
\* key read, with the flag already set.
C15_LandedWithFlagSet ==
    /\ pc = "getch"
    /\ notifs = 2
    /\ notifs_since_test = 2
    /\ resize_pending = 1

\* C16: the handler is registered before curses mode is entered and before
\* any frame, it stays registered, and every later size change sets the flag.
C16_RegisteredEarlyAndPersistent ==
    /\ [](pc = "sigaction" => (~handler_installed /\ ~curses_active /\ frame = NoFrame))
    /\ [](pc # "sigaction" => handler_installed)
    /\ [][(pc # "sigaction" /\ term' # term) =>
            (notifs' = notifs + 1 /\ resize_pending' = 1)]_vars

\* C16 witness: a second notification set the flag again after the first
\* had been drained.
C16_SecondNotificationSetsFlag ==
    /\ notifs = 2
    /\ flag_clears = 1
    /\ notifs_since_clear = 1
    /\ resize_pending = 1

\* C17: whenever select() is about to be called or is in progress, the
\* timeout is 1 second and the watched set is {stdin}.
C17_WaitParamsReinitialised ==
    pc \in {"wait_for_input", "in_select", "select_eintr"} =>
        (timeout = TimeoutSec /\ readfds = {STDIN_FILENO})

\* C17 witness: the wait is about to be called after a wait that timed out
\* (which left timeout 0 and an empty set).
C17_SetUpAgainAfterTimeout ==
    /\ pc = "wait_for_input"
    /\ wait_outcome = "timeout"
    /\ waits >= 1
    /\ timeout = 1
    /\ readfds = {0}

\* C18: the four counters start at 0, are never negative and no step
\* decreases any of them.
C18_CountersMonotone ==
    /\ (resize_count = 0 /\ select_timeout_count = 0 /\ select_input_count = 0
        /\ select_interrupt_count = 0)
    /\ [](resize_count >= 0 /\ select_timeout_count >= 0
          /\ select_input_count >= 0 /\ select_interrupt_count >= 0)
    /\ [][/\ resize_count' >= resize_count
          /\ select_timeout_count' >= select_timeout_count
          /\ select_input_count' >= select_input_count
          /\ (select_interrupt_count' >= select_interrupt_count)]_vars

\* C18 witness: every counter has been incremented.
C18_AllCountersPositive ==
    /\ resize_count >= 1
    /\ select_timeout_count >= 1
    /\ select_input_count >= 1
    /\ select_interrupt_count >= 1

\* C19: nothing is written to the output stream before the summary; after a
\* quit the one summary was written with the terminal restored, shows the
\* final values of the four counters, and the exit status is 0.
C19_SummaryAfterRestore ==
    /\ pc \notin {"return", "exited"} => stdout_log = <<>>
    /\ (pc \in {"return", "exited"} /\ running = 0) =>
         /\ Len(stdout_log) = 1
         /\ ~stdout_log[1].curses
         /\ ~curses_active
         /\ stdout_log[1].resizes = resize_count
         /\ stdout_log[1].timeouts = select_timeout_count
         /\ stdout_log[1].inputs = select_input_count
         /\ stdout_log[1].interrupts = select_interrupt_count
    /\ (pc = "exited" /\ running = 0) => exit_status = 0

\* C19 witness: exit after a quit with a summary showing non-zero counts.
C19_ExitedWithSummary ==
    /\ pc = "exited"
    /\ running = 0
    /\ Len(stdout_log) = 1
    /\ stdout_log[1].resizes = 1
    /\ stdout_log[1].timeouts = 1
    /\ stdout_log[1].inputs = 1

\* C20: debug_mode is on exactly after an odd number of dispatched debug
\* keys (so two of them restore it, whatever happens in between), and only
\* the dispatch of a debug key changes it.
C20_DebugToggleInvolution ==
    /\ [](debug_mode = toggles % 2)
    /\ [][debug_mode' # debug_mode =>
            (pc = "handle_input" /\ ch \in {"d", "D"})]_vars
    /\ [][(pc = "handle_input" /\ ch \in {"d", "D"} /\ pc' # pc) =>
            (debug_mode' = 1 - debug_mode)]_vars

\* C20 witness: two debug keys with a timeout in between left the panel off.
C20_ToggledTwice ==
    /\ toggles = 2
    /\ debug_mode = 0
    /\ select_timeout_count = 1
    /\ pc = "while_running"

(* ------------------------------------------------------------------ *)
(* C21                                                                 *)
(* ------------------------------------------------------------------ *)

\* A frame has just been displayed (main.c:315 done, main.c:318 next).
Rendered == pc = "wait_setup"

\* C21: every frame is drawn with the debug panel exactly when debug_mode
\* is on at the time of the render; dispatching a key, a debug toggle
\* included, changes no frame already drawn, and debug_mode changes only in
\* the dispatch, so a toggle shows in the frame of the next iteration.
C21_PanelFollowsDebugMode ==
    /\ [][(pc = "render" /\ pc' = "wait_setup")
            => ((frame'.panel # {}) <=> (debug_mode # 0))]_vars
    /\ [][(pc = "handle_input") => (frame' = frame)]_vars
    /\ [][(pc # "handle_input") => (debug_mode' = debug_mode)]_vars

\* A frame with the panel is on display after exactly one toggle.
C21_PanelShownAfterToggle ==
    /\ Rendered
    /\ toggles = 1
    /\ frame.panel # {}
    /\ frame.debug = 1

(* ------------------------------------------------------------------ *)
(* C22                                                                 *)
(* ------------------------------------------------------------------ *)

\* The main thread is about to wait or is waiting.
AtWait == {"wait_setup", "wait_for_input", "in_select", "select_eintr"}

\* C22: the loop never waits twice without a render in between (whenever
\* the thread is about to wait or waiting, the render is the last thing the
\* iteration did), and after every return of the wait (ready, timeout or
\* interrupted) a new frame is rendered unless the loop has been left by a
\* quit key or a fatal wait error.
C22_AutoRefresh ==
    /\ [](pc \in AtWait =>
            /\ iter_steps # <<>>
            /\ iter_steps[Len(iter_steps)] = "render")
    /\ [][(pc = "after_wait" /\ pc' # pc /\ select_result >= 0) =>
            (pc' \in {"getch", "while_running"})]_vars
    /\ [](pc \in AfterLoop => (running = 0 \/ select_result < 0))
    /\ (pc = "after_wait" ~> (Rendered \/ pc \in AfterLoop))

\* A frame is on display after three waits that returned ready, timeout
\* and interrupted in some order.
C22_FrameAfterEachOutcome ==
    /\ Rendered
    /\ waits = 3
    /\ select_timeout_count = 1
    /\ select_input_count = 1
    /\ select_interrupt_count = 1

(* ------------------------------------------------------------------ *)
(* Viewport Model.  main.c has no selection or scrolling: handle_input *)
(* (main.c:200-220) has no case for the arrow keys and no variable     *)
(* holds a selection.  The operators below follow the design of the    *)
(* Viewport Model (update_selection) and of LayoutGeometry.            *)
(* ------------------------------------------------------------------ *)

SnapshotLengths == {0, 1, 3, 5}
ViewHeights == {5, 6, 8, 17}      \* terminal rows

header_lines == 2                 \* title and separator
table_header_lines == 2           \* table header row and separator
footer_lines == 1
debug_lines == 9                  \* separator, panel_height = 8 rows

\* LayoutGeometry: rows left for entities.
visible_rows(rows, dbg) ==
    rows - (header_lines + table_header_lines
            + (IF dbg THEN debug_lines ELSE 0) + footer_lines)

\* "clamp to a minimum of 1 visible row"
NavRows(vr) == IF vr < 1 THEN 1 ELSE vr

\* Variant whose Down wraps to the first entity at the end of the snapshot.
update_selection_Wraps(direction, sel, off, len, vr) ==
    IF direction = "up"
    THEN IF sel > 0
         THEN [selected_index |-> sel - 1,
               scroll_offset |-> IF sel - 1 < off THEN sel - 1 ELSE off]
         ELSE [selected_index |-> sel, scroll_offset |-> off]
    ELSE IF sel < len - 1
         THEN [selected_index |-> sel + 1,
               scroll_offset |-> IF sel + 1 >= off + vr THEN sel + 1 - vr + 1 ELSE off]
         ELSE [selected_index |-> 0, scroll_offset |-> 0]

\* Variant whose Down scrolls one key too late.
update_selection_ScrollsLate(direction, sel, off, len, vr) ==
    IF direction = "up"
    THEN IF sel > 0
         THEN [selected_index |-> sel - 1,
               scroll_offset |-> IF sel - 1 < off THEN sel - 1 ELSE off]
         ELSE [selected_index |-> sel, scroll_offset |-> off]
    ELSE IF sel < len - 1
         THEN [selected_index |-> sel + 1,
               scroll_offset |-> IF sel + 1 > off + vr THEN sel + 1 - vr + 1 ELSE off]
         ELSE [selected_index |-> sel, scroll_offset |-> off]

\* update_selection(direction): selection and scroll offset after the key.
update_selection(direction, sel, off, len, vr) ==
    IF direction = "up"
    THEN IF sel > 0
         THEN [selected_index |-> sel - 1,
               scroll_offset |-> IF sel - 1 < off THEN sel - 1 ELSE off]
         ELSE [selected_index |-> sel, scroll_offset |-> off]
    ELSE IF sel < len - 1
         THEN [selected_index |-> sel + 1,
               scroll_offset |-> IF sel + 1 >= off + vr THEN sel + 1 - vr + 1 ELSE off]
         ELSE [selected_index |-> sel, scroll_offset |-> off]

\* A snapshot is held and the first entity is selected.
ViewInit ==
    /\ MainInit
    /\ TaskIdle
    /\ EquivIdle
    /\ snapshot_length \in SnapshotLengths
    /\ selected_index = 0
    /\ scroll_offset = 0
    /\ view_rows \in ViewHeights
    /\ debug_visible = FALSE
    /\ nav_trace = <<>>

\* An Up or Down key: visible_rows is recomputed, then the key is applied.
Navigate(direction) ==
    /\ Len(nav_trace) < MaxNav
    /\ LET vr == NavRows(visible_rows(view_rows, debug_visible))
           u == update_selection(direction, selected_index, scroll_offset,
                                 snapshot_length, vr)
       IN  /\ selected_index' = u.selected_index
           /\ scroll_offset' = u.scroll_offset
    /\ nav_trace' = Append(nav_trace, direction)
    /\ UNCHANGED <<snapshot_length, view_rows, debug_visible, loopVars, taskVars, equivVars>>

KeyUp == Navigate("up")

KeyDown == Navigate("down")

\* The debug key: the panel takes or gives back rows.
ViewToggleDebug ==
    /\ Len(nav_trace) < MaxNav
    /\ debug_visible' = ~debug_visible
    /\ nav_trace' = Append(nav_trace, "toggle")
    /\ UNCHANGED <<snapshot_length, selected_index, scroll_offset, view_rows,
                   loopVars, taskVars, equivVars>>

\* A drained resize: the terminal has another height.
ViewResize ==
    /\ Len(nav_trace) < MaxNav
    /\ \E h \in ViewHeights \ {view_rows} : view_rows' = h
    /\ nav_trace' = Append(nav_trace, "resize")
    /\ UNCHANGED <<snapshot_length, selected_index, scroll_offset, debug_visible,
                   loopVars, taskVars, equivVars>>

ViewNext == KeyUp \/ KeyDown \/ ViewToggleDebug \/ ViewResize

ViewSpec == ViewInit /\ [][ViewNext]_vars

\* The last thing applied to the viewport was a navigation key.
AfterNavigation ==
    /\ nav_trace # <<>>
    /\ nav_trace[Len(nav_trace)] \in {"up", "down"}

\* This step applies the key `direction`.
NavStep(direction) == nav_trace' = Append(nav_trace, direction)

FourDowns == <<"down", "down", "down", "down">>

(* ------------------------------------------------------------------ *)
(* C23 .. C25                                                          *)
(* ------------------------------------------------------------------ *)

\* C23: after any navigation key, with a non-empty snapshot and
\* visible_rows > 0, the selection is inside the visible window, whatever
\* resizes and debug toggles came before the key.
C23_SelectionInsideWindow ==
    (AfterNavigation /\ snapshot_length > 0
        /\ visible_rows(view_rows, debug_visible) > 0)
    => /\ scroll_offset <= selected_index
       /\ selected_index < scroll_offset + visible_rows(view_rows, debug_visible)

\* C24: the selection never leaves the snapshot and never wraps: a Down
\* adds one unless the last entity is selected, an Up takes one off unless
\* the first is selected, and at either end (and with an empty snapshot) the
\* key changes neither the selection nor the scroll offset.
C24_NoWrapNoEscape ==
    /\ [](selected_index >= 0
            /\ (snapshot_length > 0 => selected_index <= snapshot_length - 1))
    /\ [][NavStep("down") =>
            IF selected_index < snapshot_length - 1
            THEN selected_index' = selected_index + 1
            ELSE UNCHANGED <<selected_index, scroll_offset>>]_vars
    /\ [][NavStep("up") =>
            IF selected_index > 0
            THEN selected_index' = selected_index - 1
            ELSE UNCHANGED <<selected_index, scroll_offset>>]_vars

\* Four Down keys have taken the selection to the last of five entities.
C24_LastEntitySelected ==
    /\ snapshot_length = 5
    /\ nav_trace = FourDowns
    /\ selected_index = snapshot_length - 1

\* C25: a Down scrolls exactly enough: when the new selection reaches
\* scroll_offset + visible_rows the offset becomes selection - visible_rows
\* + 1, otherwise it stays; five entities, visible_rows = 3 and four Down
\* keys from selection 0 give selection 4 and offset 2.
C25_DownScrollsJustEnough ==
    /\ [][NavStep("down") =>
            LET vr == NavRows(visible_rows(view_rows, debug_visible))
            IN  IF selected_index' >= scroll_offset + vr /\ selected_index' # selected_index
                THEN scroll_offset' = selected_index' - vr + 1
                ELSE scroll_offset' = scroll_offset]_vars
    /\ []((snapshot_length = 5 /\ nav_trace = FourDowns
            /\ visible_rows(view_rows, debug_visible) = 3)
           => (selected_index = 4 /\ scroll_offset = 2))

\* Scenario A has been played.
C25_ScenarioA ==
    /\ snapshot_length = 5
    /\ visible_rows(view_rows, debug_visible) = 3
    /\ nav_trace = FourDowns
    /\ selected_index = 4
    /\ scroll_offset = 2

(* ------------------------------------------------------------------ *)
(* C26, C27                                                            *)
(* ------------------------------------------------------------------ *)

\* The rows of the displayed frame a section has written to.
WrittenRows(section) == RowsOf(OnScreen(section, frame.rows, frame.cols))

\* Every draw call of the section is at a position inside the window.
InsideWindow(section) == OnScreen(section, frame.rows, frame.cols) = section

\* C26: in every rendered frame, whatever the terminal height and whether
\* the debug panel is on or off, header, content, debug panel and footer
\* write to pairwise disjoint rows.
C26_SectionsOwnDisjointRows ==
    Rendered =>
        /\ WrittenRows(frame.header) \cap WrittenRows(frame.content) = {}
        /\ WrittenRows(frame.header) \cap WrittenRows(frame.panel) = {}
        /\ WrittenRows(frame.header) \cap WrittenRows(frame.footer) = {}
        /\ WrittenRows(frame.content) \cap WrittenRows(frame.panel) = {}
        /\ WrittenRows(frame.content) \cap WrittenRows(frame.footer) = {}
        /\ WrittenRows(frame.panel) \cap WrittenRows(frame.footer) = {}

\* C27: for every terminal size no section is drawn at a negative row or
\* column or at a row >= the terminal height, and a content section or
\* debug panel that does not fit in the window is suppressed: nothing of
\* it is written.
C27_NoOutOfRangeDrawing ==
    Rendered =>
        /\ \A section \in {frame.header, frame.content, frame.panel, frame.footer} :
              \A c \in section : c.row >= 0 /\ c.col >= 0 /\ c.row < frame.rows
        /\ \A section \in {frame.content, frame.panel} :
              InsideWindow(section) \/ WrittenRows(section) = {}

(* ------------------------------------------------------------------ *)
(* C28                                                                 *)
(* ------------------------------------------------------------------ *)

\* C28: every iteration obtains a snapshot from the task data provider
\* after the test of the resize flag (and the drain, if any) and before the
\* render: when a frame has just been displayed, collect_task_data has
\* returned in this iteration, between those two steps.
C28_SnapshotBeforeEveryRender ==
    Rendered =>
        /\ ct_pc = "returned"
        /\ \E k \in 1..Len(iter_steps) :
              /\ iter_steps[k] = "fetch"
              /\ \E j \in 1..(k - 1) : iter_steps[j] \in {"flag_set", "flag_clear"}
              /\ \E j \in (k + 1)..Len(iter_steps) : iter_steps[j] = "render"

(* ------------------------------------------------------------------ *)
(* task_data.c: collect_task_data and get_state_string                 *)
(* ------------------------------------------------------------------ *)

MAX_TASKS == 1000

mock_commands ==
    <<"systemd", "kthreadd", "bash", "vim", "firefox",
      "chrome", "docker", "nginx", "postgres", "python3",
      "gcc", "make", "ssh", "sshd", "cron",
      "dbus-daemon", "NetworkManager", "pulseaudio", "Xorg", "gnome-shell">>

states == <<"R", "S", "S", "S", "D", "S", "S", "S", "S", "S">>

\* sizeof(mock_commands) / sizeof(mock_commands[0])
num_commands == Len(mock_commands)

\* the mock generates this many processes
MockProcesses == 50

\* 1-4 threads per process
num_threads(i) == 1 + (i % 4)

\* the sizes of the caller's array the calls are made with
MaxTasksArgs == (0..MaxTasksSmall) \cup {122, 123, 124, MAX_TASKS}

NamedStates == {"R", "S", "D", "Z", "T"}
OtherStates == {"X", "I", "r", " ", "?"}

\* Variant of get_state_string without the case for 'D'.
get_state_string_NoDiskSleep(state) ==
    CASE state = "R" -> "Running"
      [] state = "S" -> "Sleeping"
      [] state = "Z" -> "Zombie"
      [] state = "T" -> "Stopped"
      [] OTHER -> "Unknown"

get_state_string(state) ==
    CASE state = "R" -> "Running"
      [] state = "S" -> "Sleeping"
      [] state = "D" -> "Disk sleep"
      [] state = "Z" -> "Zombie"
      [] state = "T" -> "Stopped"
      [] OTHER -> "Unknown"

\* for (int i = 0; i < 50 && count < max_tasks; i++)
OuterContinues(i, count, max) == i < MockProcesses /\ count < max

\* Variant of the inner loop test that does not look at max_tasks.
InnerContinues_NoLimit(t, i, count, max) == t < num_threads(i)

\* for (int t = 0; t < num_threads && count < max_tasks; t++)
InnerContinues(t, i, count, max) == t < num_threads(i) /\ count < max

\* Variant of the entry whose tid is the pid for every thread.
TaskEntry_TidIsPid(i, t, count) ==
    LET pid == 100 + i * 10
    IN  [pid |-> pid, tid |-> pid,
         command |-> mock_commands[(i % num_commands) + 1],
         state |-> states[(count % 10) + 1]]

\* the entry written at tasks[count]
TaskEntry(i, t, count) ==
    LET pid == 100 + i * 10
    IN  [pid |-> pid, tid |-> pid + t,
         command |-> mock_commands[(i % num_commands) + 1],
         state |-> states[(count % 10) + 1]]

\* collect_task_data(tasks, max_tasks) has been called with an array
\* nothing has been written to.
TaskInit ==
    /\ MainInit
    /\ ViewIdle
    /\ EquivIdle
    /\ ct_pc = "outer"
    /\ max_tasks \in MaxTasksArgs
    /\ tasks = <<>>
    /\ ct_i = 0
    /\ ct_t = 0
    /\ ct_count = 0
    /\ ct_ret = -1
    /\ state_shown = "none"
    /\ ct_calls = 1
    /\ prev_tasks = <<>>

\* the test of the outer loop, and "return count" when it fails
collect_outer ==
    /\ ct_pc = "outer"
    /\ IF OuterContinues(ct_i, ct_count, max_tasks)
       THEN /\ ct_t' = 0
            /\ ct_pc' = "inner"
            /\ UNCHANGED ct_ret
       ELSE /\ ct_ret' = ct_count
            /\ ct_pc' = "returned"
            /\ UNCHANGED ct_t
    /\ UNCHANGED <<max_tasks, tasks, ct_i, ct_count, state_shown, ct_calls,
                   prev_tasks, loopVars, viewVars, equivVars>>

\* the test of the inner loop with its body, or the i++ of the outer loop
collect_inner ==
    /\ ct_pc = "inner"
    /\ IF InnerContinues(ct_t, ct_i, ct_count, max_tasks)
       THEN /\ tasks' = [k \in (DOMAIN tasks) \cup {ct_count} |->
                            IF k = ct_count THEN TaskEntry(ct_i, ct_t, ct_count)
                            ELSE tasks[k]]
            /\ ct_count' = ct_count + 1
            /\ ct_t' = ct_t + 1
            /\ UNCHANGED <<ct_i, ct_pc>>
       ELSE /\ ct_i' = ct_i + 1
            /\ ct_pc' = "outer"
            /\ UNCHANGED <<tasks, ct_count, ct_t>>
    /\ UNCHANGED <<max_tasks, ct_ret, state_shown, ct_calls, prev_tasks,
                   loopVars, viewVars, equivVars>>

\* get_state_string is called on an entry of the snapshot
show_state ==
    /\ ct_pc = "returned"
    /\ \E k \in DOMAIN tasks : state_shown' = get_state_string(tasks[k].state)
    /\ UNCHANGED <<ct_pc, max_tasks, tasks, ct_i, ct_t, ct_count, ct_ret,
                   ct_calls, prev_tasks, loopVars, viewVars, equivVars>>

\* collect_task_data is called once more with the same max_tasks and an
\* array nothing has been written to: "int count = 0" and "int i = 0" run
\* again, t keeps what the stack holds until the inner loop sets it.
collect_again ==
    /\ ct_pc = "returned"
    /\ ct_calls = 1
    /\ ct_calls' = 2
    /\ prev_tasks' = tasks
    /\ tasks' = <<>>
    /\ ct_count' = 0
    /\ ct_i' = 0
    /\ ct_ret' = -1
    /\ ct_pc' = "outer"
    /\ UNCHANGED <<max_tasks, ct_t, state_shown, loopVars, viewVars, equivVars>>

TaskNext == collect_outer \/ collect_inner \/ show_state \/ collect_again

TaskSpec == TaskInit /\ [][TaskNext]_vars

(* ------------------------------------------------------------------ *)
(* C29, C30                                                            *)
(* ------------------------------------------------------------------ *)

\* C29: for max_tasks >= 0 the count returned is min(max_tasks, 123), so
\* 0 <= count <= max_tasks and at most MAX_TASKS; exactly the entries
\* 0..count-1 have been written, and at no time an entry at max_tasks or
\* beyond.
C29_CountWithinMaxTasks ==
    /\ \A k \in DOMAIN tasks : k >= 0 /\ k < max_tasks
    /\ ct_count >= 0 /\ ct_count <= max_tasks
    /\ DOMAIN tasks = 0..(ct_count - 1)
    /\ ct_pc = "returned" =>
          /\ ct_ret = (IF max_tasks < 123 THEN max_tasks ELSE 123)
          /\ ct_ret >= 0 /\ ct_ret <= max_tasks
          /\ ct_ret <= MAX_TASKS
          /\ DOMAIN tasks = 0..(ct_ret - 1)

\* The mock has run out of processes before the array was full.
C29_AllMockTasksCollected ==
    /\ ct_pc = "returned"
    /\ max_tasks = MAX_TASKS
    /\ ct_ret = 123

\* C30: get_state_string maps 'R', 'S', 'D', 'Z', 'T' to Running,
\* Sleeping, Disk sleep, Zombie, Stopped and every other code to Unknown;
\* every state the provider writes is one of the five codes, so no entry
\* of a snapshot is shown as Unknown.
C30_StateStringTotal ==
    /\ get_state_string("R") = "Running"
    /\ get_state_string("S") = "Sleeping"
    /\ get_state_string("D") = "Disk sleep"
    /\ get_state_string("Z") = "Zombie"
    /\ get_state_string("T") = "Stopped"
    /\ \A c \in OtherStates : get_state_string(c) = "Unknown"
    /\ \A k \in DOMAIN tasks : tasks[k].state \in NamedStates
    /\ state_shown \in {"none", "Running", "Sleeping", "Disk sleep", "Zombie", "Stopped"}

\* The fifth entry of a snapshot, in disk sleep, has been shown.
C30_DiskSleepShown ==
    /\ ct_pc = "returned"
    /\ ct_ret >= 5
    /\ tasks[4].state = "D"
    /\ state_shown = "Disk sleep"

(* ------------------------------------------------------------------ *)
(* C31 .. C36                                                          *)
(* ------------------------------------------------------------------ *)

\* This step is the return of a select() call.
WaitReturn == waits' = waits + 1

\* The last element of a non-empty sequence.
Last(seq) == seq[Len(seq)]

\* C31: a returning wait increments exactly one counter, the one of its
\* outcome (ready: inputs, timeout: timeouts, interrupted: interrupts), and a
\* fatal error increments none; so the three counters add up to the waits
\* completed without a fatal error.
C31_OneCounterPerWait ==
    /\ [][WaitReturn =>
            LET d_in == select_input_count' - select_input_count
                d_to == select_timeout_count' - select_timeout_count
                d_ir == select_interrupt_count' - select_interrupt_count
            IN  /\ wait_outcome' = "ready" => (d_in = 1 /\ d_to = 0 /\ d_ir = 0)
                /\ wait_outcome' = "timeout" => (d_in = 0 /\ d_to = 1 /\ d_ir = 0)
                /\ wait_outcome' = "interrupted" => (d_in = 0 /\ d_to = 0 /\ d_ir = 1)
                /\ wait_outcome' = "error" => (d_in = 0 /\ d_to = 0 /\ d_ir = 0)]_vars
    /\ [](select_timeout_count + select_input_count + select_interrupt_count
            = waits - (IF wait_outcome = "error" THEN 1 ELSE 0))

\* Two waits have been counted and a third has failed.
C31_FatalWaitUncounted ==
    /\ waits = 3
    /\ wait_outcome = "error"
    /\ select_timeout_count + select_input_count + select_interrupt_count = 2

\* C32: resize_count never exceeds the notifications delivered; it grows by
\* one, and only in a drain whose test saw the flag set; the flag is
\* cleared (and the backend then re-synchronised) only when a notification
\* arrived since the flag was last cleared.
C32_NoDrainWithoutNotification ==
    /\ [](resize_count <= notifs /\ resyncs <= notifs /\ flag_clears <= notifs)
    /\ [][(resize_count' # resize_count) =>
            /\ resize_count' = resize_count + 1
            /\ pc = "handle_resize"
            /\ iter_steps = <<"flag_set">>]_vars
    /\ [][(flag_clears' # flag_clears) => (notifs_since_clear >= 1)]_vars
    /\ [][(resyncs' # resyncs) => (resyncs' <= resize_count)]_vars

\* Two notifications, each drained on its own.
C32_EachNotificationDrained ==
    /\ notifs = 2
    /\ resize_count = 2
    /\ resyncs = 2

\* C33: the flag is 0 or 1; only a delivered notification writes it to 1
\* and only the clearing statement of the drain writes it to 0; it is 0
\* exactly when no notification was delivered since the last clearing write.
C33_FlagIsBoolean ==
    /\ [](resize_pending \in {0, 1})
    /\ [][(resize_pending = 0 /\ resize_pending' # 0) => (notifs' = notifs + 1)]_vars
    /\ [][(resize_pending # 0 /\ resize_pending' = 0) =>
            (pc = "clear_resize_pending" /\ pc' = "handle_resize")]_vars
    /\ [](resize_pending = 0 <=> notifs_since_clear = 0)

\* The second drain has just cleared the flag.
C33_ClearedTwice ==
    /\ flag_clears = 2
    /\ pc = "handle_resize"
    /\ resize_pending = 0

\* C34: last_errno is 0 before the first wait; a wait that returns ready
\* or timeout leaves 0 in it, an interrupted wait EINTR (which is not 0), a
\* failed wait the error's code; no other step changes it.
C34_LastErrnoTracksWait ==
    /\ [](waits = 0 => last_errno = 0)
    /\ [][WaitReturn =>
            /\ wait_outcome' \in {"ready", "timeout"} => last_errno' = 0
            /\ wait_outcome' = "interrupted" => (last_errno' = EINTR /\ EINTR # 0)
            /\ wait_outcome' = "error" =>
                  (last_errno' = errno' /\ last_errno' \in FatalErrnos)]_vars
    /\ [][(~WaitReturn) => (last_errno' = last_errno)]_vars

\* A timeout after an interrupted wait has put 0 back.
C34_ClearedAfterInterrupt ==
    /\ waits = 2
    /\ select_interrupt_count = 1
    /\ wait_outcome = "timeout"
    /\ last_errno = 0

\* This step is the dispatch of the key in ch.
Dispatch == pc = "handle_input" /\ pc' = "while_running"

\* C35: the dispatch of a key other than 'q', 'Q', 'd', 'D' changes
\* neither running nor debug_mode nor a counter nor last_errno; 'q' and 'Q'
\* change only running, 'd' and 'D' only debug_mode.
C35_OnlyQuitAndDebugChangeState ==
    /\ [][Dispatch => UNCHANGED <<Counters, last_errno, resize_pending>>]_vars
    /\ [][(Dispatch /\ ch \notin {"q", "Q", "d", "D"}) =>
            UNCHANGED <<running, debug_mode>>]_vars
    /\ [][(Dispatch /\ ch \in {"q", "Q"}) =>
            (running' = 0 /\ debug_mode' = debug_mode)]_vars
    /\ [][(Dispatch /\ ch \in {"d", "D"}) =>
            (debug_mode' = 1 - debug_mode /\ running' = running)]_vars

\* The help key has been dispatched with the panel on.
C35_HelpKeyDispatched ==
    /\ pc = "while_running"
    /\ ch = "h"
    /\ iter_steps # <<>> /\ Last(iter_steps) = "dispatch"
    /\ debug_mode = 1
    /\ running = 1

\* C36: however the loop ended, by a quit key or by a failed wait, the
\* process has printed the one summary, with the final counters, and has
\* exited with status 0.
C36_SameExitOnEveryPath ==
    pc = "exited" =>
        /\ running = 0 \/ wait_outcome = "error"
        /\ exit_status = 0
        /\ Len(stdout_log) = 1
        /\ stdout_log[1].msg = "summary"
        /\ stdout_log[1].resizes = resize_count
        /\ stdout_log[1].timeouts = select_timeout_count
        /\ stdout_log[1].inputs = select_input_count
        /\ stdout_log[1].interrupts = select_interrupt_count

\* The process has exited after a timeout and a failed wait.
C36_ExitedZeroAfterError ==
    /\ pc = "exited"
    /\ wait_outcome = "error"
    /\ running = 1
    /\ select_timeout_count = 1
    /\ exit_status = 0
    /\ Len(stdout_log) = 1

(* ------------------------------------------------------------------ *)
(* C37                                                                 *)
(* ------------------------------------------------------------------ *)

SelectReturns ==
    {[result |-> 1, err |-> 0, key |-> k] : k \in Keys}
        \cup {[result |-> 0, err |-> 0, key |-> NoKey]}
        \cup {[result |-> -1, err |-> e, key |-> NoKey] : e \in {EINTR} \cup FatalErrnos}

\* One pass of "while (running) { ... }" of main.c:298-333 from the loop
\* test to the next loop test. n_test: a window-size change lands between
\* the test of resize_pending and its clearing; n_draw: one lands between
\* there and select(). A select() that fails with EINTR was interrupted by
\* handle_sigwinch.
main_loop(s, n_test, n_draw, sel) ==
    IF s.terminated THEN s
    ELSE IF WhileRunning(s.running) = "cleanup_ui"
    THEN [s EXCEPT !.terminated = TRUE]
    ELSE
        LET drain == IfResizePending(s.resize_pending) = "clear_resize_pending"
            flag_t == IF drain /\ n_test THEN handle_sigwinch(s.resize_pending)
                      ELSE s.resize_pending
            flag_c == IF drain THEN 0 ELSE flag_t
            flag_d == IF n_draw THEN handle_sigwinch(flag_c) ELSE flag_c
            flag_s == IF sel.result < 0 /\ sel.err = EINTR
                      THEN handle_sigwinch(flag_d) ELSE flag_d
            w == wait_for_input(sel.result, sel.err)
            after == AfterWait(w.ret)
            h == IF after = "getch"
                 THEN handle_input(sel.key, s.running, s.debug_mode)
                 ELSE [running |-> s.running, debug_mode |-> s.debug_mode]
        IN  [running |-> h.running,
             debug_mode |-> h.debug_mode,
             resize_pending |-> flag_s,
             resize_count |-> IF drain THEN ResizeCounted(s.resize_count)
                              ELSE s.resize_count,
             select_timeout_count |-> s.select_timeout_count + w.timeouts,
             select_input_count |-> s.select_input_count + w.inputs,
             select_interrupt_count |-> s.select_interrupt_count + w.interrupts,
             last_errno |-> w.last_errno,
             terminated |-> after = "cleanup_ui"]

\* The same pass of the loop of part_000:236-285, which calls select()
\* itself: "continue" after EINTR, "break" after any other failure.
main_loop_000(s, n_test, n_draw, sel) ==
    IF s.terminated THEN s
    ELSE IF s.running = 0
    THEN [s EXCEPT !.terminated = TRUE]
    ELSE
        LET drain == s.resize_pending # 0
            flag_c == IF drain THEN 0 ELSE s.resize_pending
            flag_d == IF n_draw THEN 1 ELSE flag_c
            t == [s EXCEPT !.resize_pending = flag_d,
                           !.resize_count = IF drain THEN @ + 1 ELSE @]
        IN  IF sel.result < 0
            THEN IF sel.err = EINTR
                 THEN [t EXCEPT !.last_errno = sel.err,
                                !.select_interrupt_count = @ + 1,
                                !.resize_pending = 1]
                 ELSE [t EXCEPT !.last_errno = sel.err,
                                !.terminated = TRUE]
            ELSE IF sel.result > 0
            THEN [t EXCEPT !.select_input_count = @ + 1,
                           !.last_errno = 0,
                           !.running = IF sel.key \in {"q", "Q"} THEN 0 ELSE @,
                           !.debug_mode = IF sel.key \in {"d", "D"}
                                          THEN 1 - @ ELSE @]
            ELSE [t EXCEPT !.select_timeout_count = @ + 1,
                           !.last_errno = 0]

\* The same pass of the loop of part_001:263-351.
main_loop_001(s, n_test, n_draw, sel) ==
    IF s.terminated THEN s
    ELSE IF s.running = 0
    THEN [s EXCEPT !.terminated = TRUE]
    ELSE
        LET drain == s.resize_pending # 0
            flag_c == IF drain THEN 0 ELSE s.resize_pending
            flag_d == IF n_draw THEN 1 ELSE flag_c
            t == [s EXCEPT !.resize_pending = flag_d,
                           !.resize_count = IF drain THEN @ + 1 ELSE @]
        IN  IF sel.result < 0
            THEN IF sel.err = EINTR
                 THEN [t EXCEPT !.last_errno = sel.err,
                                !.select_interrupt_count = @ + 1,
                                !.resize_pending = 1]
                 ELSE [t EXCEPT !.last_errno = sel.err,
                                !.terminated = TRUE]
            ELSE IF sel.result > 0
            THEN [t EXCEPT !.select_input_count = @ + 1,
                           !.last_errno = 0,
                           !.running = IF sel.key \in {"q", "Q"} THEN 0 ELSE @,
                           !.debug_mode = IF sel.key \in {"d", "D"}
                                          THEN 1 - @ ELSE @]
            ELSE [t EXCEPT !.select_timeout_count = @ + 1,
                           !.last_errno = 0]

EquivInit ==
    /\ MainInit
    /\ ViewIdle
    /\ TaskIdle
    /\ EquivIdle

\* A window-size change between two passes: handle_sigwinch runs in each
\* program, whether or not its loop has ended.
EquivSigwinch ==
    /\ eq_main' = [eq_main EXCEPT !.resize_pending = handle_sigwinch(@)]
    /\ eq_000' = [eq_000 EXCEPT !.resize_pending = 1]
    /\ eq_001' = [eq_001 EXCEPT !.resize_pending = 1]
    /\ UNCHANGED <<eq_iter, loopVars, viewVars, taskVars>>

\* The three programs make one pass each on the same events.
EquivIterate ==
    /\ eq_iter < MaxIters
    /\ ~(eq_main.terminated /\ eq_000.terminated /\ eq_001.terminated)
    /\ \E n_test \in BOOLEAN, n_draw \in BOOLEAN, sel \in SelectReturns :
          /\ eq_main' = main_loop(eq_main, n_test, n_draw, sel)
          /\ eq_000' = main_loop_000(eq_000, n_test, n_draw, sel)
          /\ eq_001' = main_loop_001(eq_001, n_test, n_draw, sel)
    /\ eq_iter' = eq_iter + 1
    /\ UNCHANGED <<loopVars, viewVars, taskVars>>

EquivNext == EquivSigwinch \/ EquivIterate

EquivSpec == EquivInit /\ [][EquivNext]_vars

(* ------------------------------------------------------------------ *)
(* C38                                                                 *)
(* ------------------------------------------------------------------ *)

\* C38: given the same wait outcomes, keys and window-size changes, the
\* loop of main.c and the loops of part_000 and part_001 have after every
\* pass the same running, debug_mode, resize_pending, last_errno and four
\* counters, and have ended or not ended alike.
C38_SameStateEveryPass ==
    /\ eq_000 = eq_main
    /\ eq_001 = eq_main

\* All three loops ended on a failed select() after an interrupted wait
\* and a drained resize.
C38_EndedTogetherOnError ==
    /\ eq_main.terminated
    /\ eq_000.terminated
    /\ eq_001.terminated
    /\ eq_main.last_errno \in FatalErrnos
    /\ eq_main.select_interrupt_count >= 1
    /\ eq_main.resize_count >= 1
    /\ eq_main.running = 1
====
